---- MODULE Spec2Model ----
(***************************************************************************)
(* A model of hezardastan-core: the traffic obfuscator                     *)
(* (security/traffic_obfuscation.rs), the kill switch                      *)
(* (security/kill_switch.rs) and the protocol handlers                     *)
(* (protocols/otls_ws.rs, protocols/aoquic.rs, obfuscation/mod.rs) and    *)
(* the dispatcher (main.rs).                                               *)
(*                                                                         *)
(* Several specifications share the module.  Each one drives one component *)
(* and leaves the variables of the others at their initial values:         *)
(*   SpecObf       obfuscate_data / deobfuscate_data on bounded buffers    *)
(*   SpecObfMutation  the same, with the mutation cycle running            *)
(*   SpecKS        a KillSwitchManager, its clones and its subscribers     *)
(*   SpecKSFlow    the same, driven as test_kill_switch_flow drives it,    *)
(*                 with a log of what was sent and read                    *)
(*   SpecKSWriters the same, with set_state split at its two steps         *)
(*   SpecHandlers  invocations of the protocol handlers                    *)
(*   SpecDispatch  main: the binds, the accept/receive loops, the units    *)
(*   SpecDispatchFair  the same with stream clients only, under the        *)
(*                 scheduler's fairness                                    *)
(*   SpecSession   one OtlsWs session with the bytes of its stream         *)
(*   SpecAoQuicStream  the poll methods of AoQuicStream                    *)
(*   SpecAoQuicStreamFair  the same, with a caller that keeps polling      *)
(***************************************************************************)
EXTENDS Integers, Sequences, FiniteSets, TLC

VARIABLES
    \* ---- Obfuscator ----
    obf_pc,        \* position of the obfuscate/deobfuscate exchange
    obf_data,      \* the `data` argument of obfuscate_data
    obf_out,       \* the Vec<u8> obfuscate_data returns
    deobf_in,      \* the `data` argument of deobfuscate_data
    deobf_res,     \* the io::Result<Vec<u8>> deobfuscate_data returns
    obf_noise_len, \* history: the noise_len obfuscate_data drew
    obf_mimic,     \* history: whether obfuscate_data prepended the decoy header
    obf_mutations, \* number of "Performing dynamic mutation" rounds so far
    obf_made_in,   \* history: the value of obf_mutations when obf_out was made
    \* ---- KillSwitchManager ----
    is_enabled,    \* Arc<AtomicBool> shared by every clone
    chan_value,    \* the value held by the watch channel
    chan_version,  \* the watch channel's version counter
    mgr,           \* manager handles (the original and its clones)
    rx,            \* receivers handed out by subscribe_state
    refused,       \* number of "Attempted to set state ..., but it's disabled" lines printed
    attempts,      \* history: number of set_state calls made
    sends,         \* history: number of sends made
    last_set,      \* history: the argument of the latest send
    log,           \* history: subscriptions, sends and reads, in order
    \* ---- Protocol handlers ----
    calls,         \* history: the handler invocations and their results
    sock_sent,     \* datagrams the handlers sent on the UdpSocket they were given
    \* ---- main: the dispatcher ----
    main_pc,       \* position of main
    main_err,      \* the error main returned, "none" while it has not returned
    tcp_loop,      \* the task of the TCP accept loop
    udp_loop,      \* the task of the UDP receive loop
    units,         \* the tasks spawned per connection and per datagram, oldest first
    tcp_accept_errs, \* number of "TCP accept error" outcomes of accept()
    udp_recv_errs, \* number of Err outcomes of recv_from()
    after_failure, \* history: a unit was spawned after another unit had failed
    after_accept_err, \* history: a unit was spawned after an accept/recv error
    \* ---- one OtlsWs session ----
    sess_pc,       \* position of the session's unit
    sess_written,  \* the payloads the client wrote, in order
    sess_wire,     \* the bytes that arrived on the accepted stream, per write
    sess_delivered, \* the payloads handed to the application layer at the server
    sess_res,      \* what handle_tcp_stream returned
    \* ---- AoQuicStream ----
    aq_conn,       \* the quinn Connection the stream holds
    aq_close_calls, \* number of connection.close(...) calls made
    aq_polls,      \* number of poll_read / poll_write / poll_flush / poll_shutdown calls
    aq_last,       \* what the latest poll returned
    aq_inflight,   \* bytes of the peer's frame that have not arrived yet
    aq_arrived,    \* bytes that arrived on the connection and were not read
    aq_buf,        \* the filled part of the caller's ReadBuf
    aq_pending,    \* the operations whose latest poll returned Poll::Pending
    aq_wakers,     \* the operations whose waker the stream kept
    aq_frames      \* number of frames the peer sent

obfVars == <<obf_pc, obf_data, obf_out, deobf_in, deobf_res, obf_noise_len, obf_mimic,
             obf_mutations, obf_made_in>>
ksVars == <<is_enabled, chan_value, chan_version, mgr, rx, refused, attempts, sends, last_set>>
hVars == <<calls, sock_sent>>
dVars == <<main_pc, main_err, tcp_loop, udp_loop, units, tcp_accept_errs, udp_recv_errs,
           after_failure, after_accept_err>>
sVars == <<sess_pc, sess_written, sess_wire, sess_delivered, sess_res>>
aqVars == <<aq_conn, aq_close_calls, aq_polls, aq_last, aq_inflight, aq_arrived, aq_buf,
            aq_pending, aq_wakers, aq_frames>>
netVars == <<dVars, sVars, aqVars>>
vars == <<obf_pc, obf_data, obf_out, deobf_in, deobf_res, obf_noise_len, obf_mimic,
          obf_mutations, obf_made_in,
          is_enabled, chan_value, chan_version, mgr, rx, refused, attempts, sends,
          last_set, log, calls, sock_sent,
          main_pc, main_err, tcp_loop, udp_loop, units, tcp_accept_errs, udp_recv_errs,
          after_failure, after_accept_err,
          sess_pc, sess_written, sess_wire, sess_delivered, sess_res,
          aq_conn, aq_close_calls, aq_polls, aq_last, aq_inflight, aq_arrived, aq_buf,
          aq_pending, aq_wakers, aq_frames>>

\* ------------------------------------------------------------------------
\* Bounds of the model
\* ------------------------------------------------------------------------

\* Payload bytes and rng seeds range over 0..MaxByte (a u8 is 0..255).
MaxByte == 1
\* Longest short payload / raw wire buffer.
MaxLen == 2

Byte == 0..MaxByte

RECURSIVE SeqsUpTo(_, _)
SeqsUpTo(S, n) ==
    IF n = 0 THEN {<<>>}
    ELSE LET shorter == SeqsUpTo(S, n - 1)
         IN  shorter \cup {Append(s, b) : s \in {t \in shorter : Len(t) = n - 1}, b \in S}

\* ------------------------------------------------------------------------
\* security/traffic_obfuscation.rs
\* ------------------------------------------------------------------------

\* gen_range(0..16): the exclusive upper end of the noise length.
NoiseRange == 16
\* gen_range(0..50): the exclusive upper end of the delay in milliseconds.
DelayRange == 50
\* A u8 holds 0..255.
ByteModulus == 256

\* b"GET /index.html HTTP/1.1\r\nHost: www.example.com\r\n
\*   User-Agent: Mozilla/5.0\r\n\r\n" as bytes.
fake_header ==
    <<71, 69, 84, 32, 47, 105, 110, 100, 101, 120, 46, 104, 116, 109, 108, 32,
      72, 84, 84, 80, 47, 49, 46, 49, 13, 10, 72, 111, 115, 116, 58, 32,
      119, 119, 119, 46, 101, 120, 97, 109, 112, 108, 101, 46, 99, 111, 109, 13,
      10, 85, 115, 101, 114, 45, 65, 103, 101, 110, 116, 58, 32, 77, 111, 122,
      105, 108, 108, 97, 47, 53, 46, 48, 13, 10, 13, 10>>

\* The payloads the model feeds to obfuscate_data: every short byte string,
\* and each of them behind the text of the decoy header.
ShortBufs == SeqsUpTo(Byte, MaxLen)
Payloads == ShortBufs \cup {fake_header \o p : p \in ShortBufs}

\* The thread rng: the sequence of bytes drawn by the calls of rng.gen() is
\* explored for the seeds <<first, step>> of an arithmetic progression mod 256.
RngSeeds == Byte \X Byte
rng_gen(seed, i) == (seed[1] + (i - 1) * seed[2]) % ByteModulus

\* Stage 1 with the noise put before the data.
add_noise_front(data, noise_len, seed) ==
    [i \in 1..noise_len |-> rng_gen(seed, i)] \o data

\* Stage 1: push noise_len random bytes after the data.
add_noise(data, noise_len, seed) ==
    data \o [i \in 1..noise_len |-> rng_gen(seed, i)]

\* Stage 2: when gen_bool(0.3) says so, prepend the decoy header.
add_mimicry(buf, mimic) ==
    IF mimic THEN fake_header \o buf ELSE buf

\* obfuscate_data's return value for the rng outcomes (noise_len, seed, mimic).
obfuscate_data(data, noise_len, seed, mimic) ==
    add_mimicry(add_noise(data, noise_len, seed), mimic)

\* io::Result<Vec<u8>>
Ok(v) == [ok |-> TRUE, val |-> v]

\* deobfuscate_data: a copy of its argument, always Ok.
deobfuscate_data(data) == Ok(data)

ObfInit ==
    /\ obf_pc = "idle"
    /\ obf_data = <<>>
    /\ obf_out = <<>>
    /\ deobf_in = <<>>
    /\ deobf_res = Ok(<<>>)
    /\ obf_noise_len = 0
    /\ obf_mimic = FALSE
    /\ obf_mutations = 0
    /\ obf_made_in = 0

\* A call of obfuscate_data up to its suspension point: the output is built,
\* then a delay of 1..49 ms suspends the call and a delay of 0 returns at once.
ObfuscateCall ==
    /\ obf_pc = "idle"
    /\ \E data \in Payloads, noise_len \in 0..(NoiseRange - 1),
          seed \in RngSeeds, mimic \in BOOLEAN, random_delay_ms \in 0..(DelayRange - 1) :
          /\ obf_data' = data
          /\ obf_out' = obfuscate_data(data, noise_len, seed, mimic)
          /\ obf_noise_len' = noise_len
          /\ obf_mimic' = mimic
          /\ obf_pc' = IF random_delay_ms > 0 THEN "sleeping" ELSE "returned"
    /\ obf_made_in' = obf_mutations
    /\ UNCHANGED <<deobf_in, deobf_res, obf_mutations, ksVars, log, hVars, netVars>>

\* The sleep ends and obfuscate_data returns obfuscated_data.
ObfuscateWake ==
    /\ obf_pc = "sleeping"
    /\ obf_pc' = "returned"
    /\ UNCHANGED <<obf_data, obf_out, deobf_in, deobf_res, obf_noise_len, obf_mimic,
                   obf_mutations, obf_made_in, ksVars, log, hVars, netVars>>

\* The peer hands the bytes obfuscate_data returned to deobfuscate_data.
DeobfuscateReturned ==
    /\ obf_pc = "returned"
    /\ deobf_in' = obf_out
    /\ deobf_res' = deobfuscate_data(obf_out)
    /\ obf_pc' = "roundtrip"
    /\ UNCHANGED <<obf_data, obf_out, obf_noise_len, obf_mimic, obf_mutations, obf_made_in,
                   ksVars, log, hVars, netVars>>

\* deobfuscate_data is handed bytes that arrived from the network.
DeobfuscateWire ==
    /\ obf_pc = "idle"
    /\ \E buf \in ShortBufs :
          /\ deobf_in' = buf
          /\ deobf_res' = deobfuscate_data(buf)
    /\ obf_pc' = "decoded"
    /\ UNCHANGED <<obf_data, obf_out, obf_noise_len, obf_mimic, obf_mutations, obf_made_in,
                   ksVars, log, hVars, netVars>>

\* The exchange is over; the next one starts from scratch.
ObfDone ==
    /\ obf_pc \in {"roundtrip", "decoded"}
    /\ obf_pc' = "idle"
    /\ obf_data' = <<>>
    /\ obf_out' = <<>>
    /\ deobf_in' = <<>>
    /\ deobf_res' = Ok(<<>>)
    /\ obf_noise_len' = 0
    /\ obf_mimic' = FALSE
    /\ obf_made_in' = 0
    /\ UNCHANGED <<obf_mutations, ksVars, log, hVars, netVars>>

ObfNext ==
    \/ ObfuscateCall
    \/ ObfuscateWake
    \/ DeobfuscateReturned
    \/ DeobfuscateWire
    \/ ObfDone

\* Most rounds of the mutation cycle over a run.
MaxMutations == 2

\* run_mutation_cycle_simulation, one round of its loop: the 60 s sleep ends
\* and the line is printed.  No parameter of the Obfuscator changes
\* (_config_placeholder is ()), and a call in progress is not touched.
run_mutation_cycle_simulation ==
    /\ obf_mutations < MaxMutations
    /\ obf_mutations' = obf_mutations + 1
    /\ UNCHANGED <<obf_pc, obf_data, obf_out, deobf_in, deobf_res, obf_noise_len, obf_mimic,
                   obf_made_in, ksVars, log, hVars, netVars>>

ObfMutationNext ==
    \/ ObfuscateCall
    \/ ObfuscateWake
    \/ DeobfuscateReturned
    \/ DeobfuscateWire
    \/ ObfDone
    \/ run_mutation_cycle_simulation

\* ------------------------------------------------------------------------
\* security/kill_switch.rs
\* ------------------------------------------------------------------------

\* Most manager handles (the original plus its clones).
MaxManagers == 2
\* Most receivers handed out by subscribe_state.
MaxReceivers == 1
\* Most calls of set_state over a run.
MaxCalls == 3
\* Most reads one receiver makes in a logged run: a first one, and one per call.
MaxObs == MaxCalls + 1

KillSwitchState == {"Active", "Triggered", "Disabled"}

\* watch::channel(init): the value and the version counter it starts with.
watch_channel(init) == [value |-> init, version |-> 0]

\* watch::Sender::send with a receiver alive (the manager keeps
\* state_receiver, so there always is one): store the value, bump the version.
watch_send_silent(ch, new_state) == [value |-> new_state, version |-> ch.version]
watch_send(ch, new_state) == [value |-> new_state, version |-> ch.version + 1]

\* set_state's test `self.is_enabled.load(Ordering::SeqCst)`.
load_is_enabled_ignored == TRUE
load_is_enabled == is_enabled

\* Receiver::has_changed: the channel's version is not the one last seen.
HasChanged(r) == chan_version # rx[r].version

\* No read made yet.
NoRead == [val |-> "none", cur |-> "none"]

\* A handle as new() and clone() make it: no call in progress.
Handle(rx_version) ==
    [rx_version |-> rx_version, hc |-> 0, pc |-> "idle", arg |-> "Disabled"]

\* Receiver::clone(): the version seen is the one the cloned receiver has
\* seen.  `mark` is the number of sends made when the receiver was handed out
\* or last completed changed(); `last` is its latest read.
receiver_clone(version) ==
    [version |-> version, pc |-> "ready", mark |-> sends, last |-> NoRead]

\* KillSwitchManager::new(enabled_by_config): a channel holding Disabled, the
\* flag, one handle.  No receiver has been handed out yet.
new(enabled_by_config) ==
    /\ is_enabled = enabled_by_config
    /\ chan_value = watch_channel("Disabled").value
    /\ chan_version = watch_channel("Disabled").version
    /\ mgr = <<Handle(watch_channel("Disabled").version)>>
    /\ rx = <<>>
    /\ refused = 0
    /\ attempts = 0
    /\ sends = 0
    /\ last_set = "Disabled"
    /\ log = <<>>

\* The manager is constructed enabled or disabled.
KsInit == \E enabled_by_config \in BOOLEAN : new(enabled_by_config)

\* impl Clone for KillSwitchManager: the sender, the receiver (with the version
\* it has seen) and the flag are cloned.
CloneManager(m) ==
    /\ Len(mgr) < MaxManagers
    /\ mgr' = Append(mgr, Handle(mgr[m].rx_version))
    /\ UNCHANGED <<is_enabled, chan_value, chan_version, rx, refused, attempts, sends, last_set>>

\* subscribe_state: self.state_receiver.clone().
subscribe_state(m) ==
    /\ Len(rx) < MaxReceivers
    /\ rx' = Append(rx, receiver_clone(mgr[m].rx_version))
    /\ UNCHANGED <<is_enabled, chan_value, chan_version, mgr, refused, attempts, sends, last_set>>

\* self.state_sender.send(new_state): the channel afterwards.
Send(new_state) ==
    /\ LET ch == watch_send([value |-> chan_value, version |-> chan_version], new_state)
       IN  /\ chan_value' = ch.value
           /\ chan_version' = ch.version
    /\ sends' = sends + 1
    /\ last_set' = new_state

\* set_state with its test negated.
SetStateBody_negated(new_state) ==
    /\ attempts' = attempts + 1
    /\ IF ~load_is_enabled
       THEN /\ Send(new_state)
            /\ UNCHANGED refused
       ELSE /\ refused' = IF new_state # "Disabled" THEN refused + 1 ELSE refused
            /\ UNCHANGED <<chan_value, chan_version, sends, last_set>>

\* set_state as a state machine that refuses to go back to Disabled.
SetStateBody_no_disabled(new_state) ==
    /\ attempts' = attempts + 1
    /\ IF load_is_enabled /\ new_state # "Disabled"
       THEN /\ Send(new_state)
            /\ UNCHANGED refused
       ELSE /\ refused' = IF new_state # "Disabled" THEN refused + 1 ELSE refused
            /\ UNCHANGED <<chan_value, chan_version, sends, last_set>>

\* The body of set_state: send when enabled; otherwise leave the channel
\* alone and print the refusal unless new_state is Disabled.
SetStateBody(new_state) ==
    /\ attempts' = attempts + 1
    /\ IF load_is_enabled
       THEN /\ Send(new_state)
            /\ UNCHANGED refused
       ELSE /\ refused' = IF new_state # "Disabled" THEN refused + 1 ELSE refused
            /\ UNCHANGED <<chan_value, chan_version, sends, last_set>>

\* set_state called by the task that owns handle m.
set_state(m) ==
    /\ mgr[m].hc = 0
    /\ mgr[m].pc = "idle"
    /\ attempts < MaxCalls
    /\ \E new_state \in KillSwitchState : SetStateBody(new_state)
    /\ UNCHANGED <<is_enabled, mgr, rx>>

\* The argument of the set_state call at each stage of the simulation.
HealthCheckArg(stage) ==
    CASE stage = 1 -> "Active"
      [] stage = 2 -> "Triggered"
      [] stage = 3 -> "Active"

\* run_health_check_simulation, entry: return if disabled.
run_health_check_simulation(m) ==
    /\ mgr[m].hc = 0
    /\ mgr[m].pc = "idle"
    /\ mgr' = [mgr EXCEPT ![m].hc = IF is_enabled THEN 1 ELSE 0]
    /\ UNCHANGED <<is_enabled, chan_value, chan_version, rx, refused, attempts, sends, last_set>>

\* run_health_check_simulation, the next set_state call (after the sleep that
\* precedes it, for stages 2 and 3); after the third the simulation returns.
HealthCheckStep(m) ==
    /\ mgr[m].hc \in {1, 2, 3}
    /\ attempts < MaxCalls
    /\ SetStateBody(HealthCheckArg(mgr[m].hc))
    /\ mgr' = [mgr EXCEPT ![m].hc = IF @ = 3 THEN 0 ELSE @ + 1]
    /\ UNCHANGED <<is_enabled, rx>>

\* receiver.changed().await completes: the version differs from the one seen,
\* which is then marked seen.
Changed(r) ==
    /\ rx[r].pc = "ready"
    /\ HasChanged(r)
    /\ rx' = [rx EXCEPT ![r].version = chan_version,
                        ![r].pc = "notified",
                        ![r].mark = sends]
    /\ UNCHANGED <<is_enabled, chan_value, chan_version, mgr, refused, attempts, sends, last_set>>

\* *receiver.borrow(): the value the channel holds now (kept with the argument
\* of the latest send, for comparison).
Borrow(r) ==
    /\ rx' = [rx EXCEPT ![r].last = [val |-> chan_value, cur |-> last_set],
                        ![r].pc = "ready"]
    /\ UNCHANGED <<is_enabled, chan_value, chan_version, mgr, refused, attempts, sends, last_set>>

\* What the actions of the kill switch leave alone.
KsFrame == UNCHANGED <<obfVars, hVars, netVars, log>>

KsNext ==
    \/ \E m \in 1..Len(mgr) : CloneManager(m) /\ KsFrame
    \/ \E m \in 1..Len(mgr) : subscribe_state(m) /\ KsFrame
    \/ \E m \in 1..Len(mgr) : set_state(m) /\ KsFrame
    \/ \E m \in 1..Len(mgr) : run_health_check_simulation(m) /\ KsFrame
    \/ \E m \in 1..Len(mgr) : HealthCheckStep(m) /\ KsFrame
    \/ \E r \in 1..Len(rx) : Changed(r) /\ KsFrame
    \/ \E r \in 1..Len(rx) : Borrow(r) /\ KsFrame

\* ---- the run of test_kill_switch_flow, logged ----

\* The events the log keeps.
SubEvent(r) == [ev |-> "sub", r |-> r, val |-> "none", woke |-> FALSE]
SendEvent(v) == [ev |-> "send", r |-> 0, val |-> v, woke |-> FALSE]
ReadEvent(r, v, woke) == [ev |-> "read", r |-> r, val |-> v, woke |-> woke]

Logged(e) == log' = Append(log, e) /\ UNCHANGED <<obfVars, hVars, netVars>>
NotLogged == UNCHANGED <<obfVars, hVars, netVars, log>>

\* The reads of receiver r in the log.
ReadsOf(r) == SelectSeq(log, LAMBDA e : e.ev = "read" /\ e.r = r)

\* let mut receiver = manager.subscribe_state();
FlowSubscribe(m) == subscribe_state(m) /\ Logged(SubEvent(Len(rx) + 1))

\* A set_state call of the spawned run_health_check_simulation.
FlowHealthCheckStep(m) == HealthCheckStep(m) /\ Logged(SendEvent(HealthCheckArg(mgr[m].hc)))

\* assert_eq!(*receiver.borrow(), ...): the test's first read comes before any
\* changed(), the later ones each after a completed changed().
FlowBorrow(r) ==
    /\ rx[r].pc = "notified" \/ ReadsOf(r) = <<>>
    /\ Borrow(r)
    /\ Logged(ReadEvent(r, chan_value, rx[r].pc = "notified"))

\* receiver.changed().await.unwrap();
FlowChanged(r) ==
    /\ Len(ReadsOf(r)) < MaxObs
    /\ Changed(r)
    /\ NotLogged

KsFlowNext ==
    \/ \E m \in 1..Len(mgr) : CloneManager(m) /\ NotLogged
    \/ \E m \in 1..Len(mgr) : FlowSubscribe(m)
    \/ \E m \in 1..Len(mgr) : run_health_check_simulation(m) /\ NotLogged
    \/ \E m \in 1..Len(mgr) : FlowHealthCheckStep(m)
    \/ \E r \in 1..Len(rx) : FlowChanged(r)
    \/ \E r \in 1..Len(rx) : FlowBorrow(r)

\* ---- set_state at the grain of its two steps ----

\* set_state, first step: the task that owns handle m loads the flag.  A
\* disabled manager returns here; an enabled one goes on to the send.
SetStateLoad(m) ==
    /\ mgr[m].pc = "idle"
    /\ mgr[m].hc = 0
    /\ attempts < MaxCalls
    /\ attempts' = attempts + 1
    /\ \E new_state \in KillSwitchState :
          /\ mgr' = [mgr EXCEPT ![m].arg = IF load_is_enabled THEN new_state ELSE @,
                                ![m].pc = IF load_is_enabled THEN "loaded" ELSE "idle"]
          /\ refused' = IF ~load_is_enabled /\ new_state # "Disabled"
                        THEN refused + 1 ELSE refused
    /\ UNCHANGED <<is_enabled, chan_value, chan_version, rx, sends, last_set>>

\* set_state, second step: self.state_sender.send(new_state), then return.
SetStateSend(m) ==
    /\ mgr[m].pc = "loaded"
    /\ Send(mgr[m].arg)
    /\ mgr' = [mgr EXCEPT ![m].pc = "idle", ![m].arg = "Disabled"]
    /\ UNCHANGED <<is_enabled, rx, refused, attempts>>

KsWritersNext ==
    \/ \E m \in 1..Len(mgr) : CloneManager(m) /\ KsFrame
    \/ \E m \in 1..Len(mgr) : subscribe_state(m) /\ KsFrame
    \/ \E m \in 1..Len(mgr) : SetStateLoad(m) /\ KsFrame
    \/ \E m \in 1..Len(mgr) : SetStateSend(m) /\ KsFrame
    \/ \E r \in 1..Len(rx) : Changed(r) /\ KsFrame
    \/ \E r \in 1..Len(rx) : Borrow(r) /\ KsFrame

\* ------------------------------------------------------------------------
\* protocols/otls_ws.rs, obfuscation/mod.rs, protocols/common.rs
\* ------------------------------------------------------------------------

\* Most peer addresses.
MaxPeers == 2
\* Most handler invocations over a run.
MaxInvocations == 2

Peers == 1..MaxPeers

\* A TcpStream as the handler sees it: what stream.peer_addr() returns.
Streams ==
    {[ok |-> TRUE, peer |-> p, kind |-> "none"] : p \in Peers}
        \cup {[ok |-> FALSE, peer |-> 0, kind |-> "NotConnected"]}

\* io::Result<()>: Ok(()), or an io::Error of some io::ErrorKind.  A handler
\* that speaks the error taxonomy itself sets err to the ProtocolError variant.
OkUnit == [ok |-> TRUE, err |-> "none", kind |-> "none"]
io_Error_new(kind) == [ok |-> FALSE, err |-> "io", kind |-> kind]

\* impl From<std::io::Error> for ProtocolError: an io::Error becomes Io; the
\* variant of the ProtocolError taxonomy a handler's result carries.
ProtocolErrorOf(res) ==
    IF res.ok THEN "none"
    ELSE IF res.err = "io" THEN "Io"
    ELSE res.err

\* OtlsWsProtocol::handle_tcp_stream: `stream.peer_addr()?`, then Ok(()).
OtlsWs_handle_tcp_stream(stream) ==
    IF stream.ok THEN OkUnit ELSE io_Error_new(stream.kind)

\* OtlsWsProtocol::handle_udp_packet: always
\* Err(io::Error::new(io::ErrorKind::Other, "OTLS/WS does not handle UDP packets.")).
OtlsWs_handle_udp_packet_accepts(buf, peer_addr) == OkUnit
OtlsWs_handle_udp_packet(buf, peer_addr) == io_Error_new("Other")

\* What OtlsWsProtocol::handle_udp_packet sends on `_socket`: the parameter is
\* never used, so nothing.
OtlsWs_udp_sends_echo(buf, peer_addr) == <<[to |-> peer_addr, data |-> buf]>>
OtlsWs_udp_sends(buf, peer_addr) == <<>>

\* The AoQuic handler's handle_tcp_stream.  main.rs names
\* aoquic::AoQuicProtocol and the trait ObfuscatedProtocol declares the
\* method, but the handler itself is not among the source files: it is
\* modelled from the specification, which has it reject streams with
\* ProtocolViolation.
AoQuic_handle_tcp_stream_accepts(stream) == OkUnit
AoQuic_handle_tcp_stream(stream) ==
    [ok |-> FALSE, err |-> "ProtocolViolation", kind |-> "none"]

Invocation(handler, transport, peer, buf, res) ==
    [handler |-> handler, transport |-> transport, peer |-> peer, buf |-> buf, res |-> res]

\* A caller hands the OtlsWs handler an accepted stream.
InvokeOtlsWsTcp ==
    /\ Len(calls) < MaxInvocations
    /\ \E stream \in Streams :
          calls' = Append(calls, Invocation("OTLS/WS", "stream", stream.peer, <<>>,
                                            OtlsWs_handle_tcp_stream(stream)))
    /\ UNCHANGED <<sock_sent, obfVars, ksVars, log, netVars>>

\* A caller hands the OtlsWs handler a datagram, as
\* test_otlsws_rejects_udp_packets does.
InvokeOtlsWsUdp ==
    /\ Len(calls) < MaxInvocations
    /\ \E buf \in ShortBufs, peer_addr \in Peers :
          /\ calls' = Append(calls, Invocation("OTLS/WS", "datagram", peer_addr, buf,
                                               OtlsWs_handle_udp_packet(buf, peer_addr)))
          /\ sock_sent' = sock_sent \o OtlsWs_udp_sends(buf, peer_addr)
    /\ UNCHANGED <<obfVars, ksVars, log, netVars>>

\* A caller hands the AoQuic handler a stream.
InvokeAoQuicTcp ==
    /\ Len(calls) < MaxInvocations
    /\ \E stream \in Streams :
          calls' = Append(calls, Invocation("AOQUIC", "stream", stream.peer, <<>>,
                                            AoQuic_handle_tcp_stream(stream)))
    /\ UNCHANGED <<sock_sent, obfVars, ksVars, log, netVars>>

HandlersNext ==
    \/ InvokeOtlsWsTcp
    \/ InvokeOtlsWsUdp
    \/ InvokeAoQuicTcp

\* ------------------------------------------------------------------------
\* main.rs: the dispatcher
\* ------------------------------------------------------------------------

\* Most units (connection tasks and datagram tasks) spawned over a run.
MaxUnits == 3
\* Most Err outcomes of accept(), and of recv_from(), over a run.
MaxAcceptErrors == 1

\* What accept() hands to a unit: a stream whose peer_addr() will succeed or
\* fail.  The TCP path never branches on which peer it is, so one peer stands
\* for all.
AcceptedStreams == {st \in Streams : st.peer <= 1}

\* What recv_from() returns for a datagram of peer_addr.
Datagram(peer_addr) == [ok |-> TRUE, peer |-> peer_addr, kind |-> "none"]

\* The result of a handler that has not returned yet.
NoResult == [ok |-> FALSE, err |-> "pending", kind |-> "none"]

\* aoquic_protocol.handle_udp_packet(...): the trait gives it the type
\* io::Result<()>, and main treats every Err alike, so any result of that type.
AoQuic_handle_udp_packet_results == {OkUnit, io_Error_new("Other")}

\* The results the handler of unit u can return.
HandlerResults(u) ==
    IF u.transport = "stream"
    THEN {OtlsWs_handle_tcp_stream(u.from)}
    ELSE AoQuic_handle_udp_packet_results

\* tokio::spawn(async move { ... handle_...(...).await ... }): a new task.
\* `slow` tells whether the task gets to run only when nothing else can be
\* said about it (no fairness), or is scheduled like any other task.
Unit(transport, from, slow) ==
    [transport |-> transport, from |-> from, slow |-> slow, pc |-> "spawned", res |-> NoResult]

Failed(u) == u.pc = "done" /\ ~u.res.ok

\* The accept loop spawns the unit and does not await it: it is ready for
\* the next accept() whatever the units are doing.
AcceptReady_inline(us) == \A i \in 1..Len(us) : us[i].pc # "spawned"
AcceptReady(us) == TRUE

\* `Err(e) => { error!(...); }`: an accept/recv error is logged and the loop
\* goes round again.
LoopAfterAcceptError_fatal(loop) == "stopped"
LoopAfterAcceptError(loop) == loop

\* `if let Err(e) = ... { error!(...); }` inside the spawned task: a unit's
\* result, error or not, ends in that task and does not reach the loop.
LoopAfterUnit_propagates(loop, res) == IF res.ok THEN loop ELSE "stopped"
LoopAfterUnit(loop, res) == loop

\* The runtime is dropped when main returns: its tasks are cancelled.
Cancelled(task_pc) == IF task_pc \in {"running", "spawned"} THEN "cancelled" ELSE task_pc

DInit ==
    /\ main_pc = "bind_tcp"
    /\ main_err = "none"
    /\ tcp_loop = "unspawned"
    /\ udp_loop = "unspawned"
    /\ units = <<>>
    /\ tcp_accept_errs = 0
    /\ udp_recv_errs = 0
    /\ after_failure = FALSE
    /\ after_accept_err = FALSE

DFrame == UNCHANGED <<obfVars, ksVars, log, hVars, sVars, aqVars>>

\* TcpListener::bind(tcp_listen_addr).await ... ?
BindTcp ==
    /\ main_pc = "bind_tcp"
    /\ \E bound \in BOOLEAN :
          /\ main_pc' = IF bound THEN "spawn_tcp" ELSE "exited"
          /\ main_err' = IF bound THEN main_err ELSE "TcpBind"
    /\ UNCHANGED <<tcp_loop, udp_loop, units, tcp_accept_errs, udp_recv_errs,
                   after_failure, after_accept_err>>
    /\ DFrame

\* tokio::spawn of the TCP accept loop.
SpawnTcpLoop ==
    /\ main_pc = "spawn_tcp"
    /\ tcp_loop' = "running"
    /\ main_pc' = "bind_udp"
    /\ UNCHANGED <<main_err, udp_loop, units, tcp_accept_errs, udp_recv_errs,
                   after_failure, after_accept_err>>
    /\ DFrame

\* UdpSocket::bind(udp_listen_addr).await ... ?  On failure main returns the
\* error, and the runtime with the accept loop and its units goes down.
BindUdp ==
    /\ main_pc = "bind_udp"
    /\ \E bound \in BOOLEAN :
          IF bound
          THEN /\ main_pc' = "spawn_udp"
               /\ UNCHANGED <<main_err, tcp_loop, units>>
          ELSE /\ main_pc' = "exited"
               /\ main_err' = "UdpBind"
               /\ tcp_loop' = Cancelled(tcp_loop)
               /\ units' = [i \in 1..Len(units) |->
                                [units[i] EXCEPT !.pc = Cancelled(units[i].pc)]]
    /\ UNCHANGED <<udp_loop, tcp_accept_errs, udp_recv_errs, after_failure, after_accept_err>>
    /\ DFrame

\* tokio::spawn of the UDP receive loop; main then waits on pending().
SpawnUdpLoop ==
    /\ main_pc = "spawn_udp"
    /\ udp_loop' = "running"
    /\ main_pc' = "running"
    /\ UNCHANGED <<main_err, tcp_loop, units, tcp_accept_errs, udp_recv_errs,
                   after_failure, after_accept_err>>
    /\ DFrame

\* tcp_listener.accept() returns Ok((socket, peer_addr)): a unit is spawned
\* for the connection; `speeds` tells which kinds of unit are considered.
TcpAcceptAs(speeds) ==
    /\ tcp_loop = "running"
    /\ Len(units) < MaxUnits
    /\ AcceptReady(units)
    /\ \E socket \in AcceptedStreams, slow \in speeds :
          units' = Append(units, Unit("stream", socket, slow))
    /\ after_failure' = (after_failure \/ \E i \in 1..Len(units) : Failed(units[i]))
    /\ after_accept_err' = (after_accept_err \/ tcp_accept_errs > 0)
    /\ UNCHANGED <<main_pc, main_err, tcp_loop, udp_loop, tcp_accept_errs, udp_recv_errs>>
    /\ DFrame

\* Every unit is scheduled like any other task.
TcpAccept == TcpAcceptAs({FALSE})

\* Units may also be slow.
TcpAcceptAnySpeed == TcpAcceptAs(BOOLEAN)

\* tcp_listener.accept() returns Err(e).
TcpAcceptErr ==
    /\ tcp_loop = "running"
    /\ tcp_accept_errs < MaxAcceptErrors
    /\ tcp_accept_errs' = tcp_accept_errs + 1
    /\ tcp_loop' = LoopAfterAcceptError(tcp_loop)
    /\ UNCHANGED <<main_pc, main_err, udp_loop, units, udp_recv_errs,
                   after_failure, after_accept_err>>
    /\ DFrame

\* aoquic_socket.recv_from(&mut buf) returns Ok((len, peer_addr)): a unit is
\* spawned for the datagram.
UdpRecv ==
    /\ udp_loop = "running"
    /\ Len(units) < MaxUnits
    /\ AcceptReady(units)
    /\ \E peer_addr \in Peers :
          units' = Append(units, Unit("datagram", Datagram(peer_addr), FALSE))
    /\ after_failure' = (after_failure \/ \E i \in 1..Len(units) : Failed(units[i]))
    /\ after_accept_err' = (after_accept_err \/ udp_recv_errs > 0)
    /\ UNCHANGED <<main_pc, main_err, tcp_loop, udp_loop, tcp_accept_errs, udp_recv_errs>>
    /\ DFrame

\* aoquic_socket.recv_from(&mut buf) returns Err(e); only the log line
\* depends on e.kind().
UdpRecvErr ==
    /\ udp_loop = "running"
    /\ udp_recv_errs < MaxAcceptErrors
    /\ \E kind \in {"WouldBlock", "Other"} :
          /\ udp_recv_errs' = udp_recv_errs + 1
          /\ udp_loop' = LoopAfterAcceptError(udp_loop)
    /\ UNCHANGED <<main_pc, main_err, tcp_loop, units, tcp_accept_errs,
                   after_failure, after_accept_err>>
    /\ DFrame

\* Unit i runs its handler to the end; an Err is logged by the unit itself.
UnitCompletes(i) ==
    /\ units[i].pc = "spawned"
    /\ \E res \in HandlerResults(units[i]) :
          /\ units' = [units EXCEPT ![i].pc = "done", ![i].res = res]
          /\ tcp_loop' = IF units[i].transport = "stream"
                         THEN LoopAfterUnit(tcp_loop, res) ELSE tcp_loop
          /\ udp_loop' = IF units[i].transport = "datagram"
                         THEN LoopAfterUnit(udp_loop, res) ELSE udp_loop
    /\ UNCHANGED <<main_pc, main_err, tcp_accept_errs, udp_recv_errs,
                   after_failure, after_accept_err>>
    /\ DFrame

\* A unit that the scheduler runs like any other task.
RunUnit(i) == i <= Len(units) /\ ~units[i].slow /\ UnitCompletes(i)

\* A unit that may take arbitrarily long, or forever.
RunSlowUnit(i) == i <= Len(units) /\ units[i].slow /\ UnitCompletes(i)

DispatchNext ==
    \/ BindTcp
    \/ SpawnTcpLoop
    \/ BindUdp
    \/ SpawnUdpLoop
    \/ TcpAccept
    \/ TcpAcceptErr
    \/ UdpRecv
    \/ UdpRecvErr
    \/ \E i \in 1..MaxUnits : RunUnit(i)

\* The dispatcher with stream clients only, some of them slow: no datagram
\* arrives.
DispatchTcpNext ==
    \/ BindTcp
    \/ SpawnTcpLoop
    \/ BindUdp
    \/ SpawnUdpLoop
    \/ TcpAcceptAnySpeed
    \/ TcpAcceptErr
    \/ \E i \in 1..MaxUnits : RunUnit(i)
    \/ \E i \in 1..MaxUnits : RunSlowUnit(i)

\* The tokio scheduler runs every task that is ready: main, the accept loop
\* (connections keep arriving) and every unit that is not slow.
DispatchFairness ==
    /\ WF_vars(BindTcp)
    /\ WF_vars(SpawnTcpLoop)
    /\ WF_vars(BindUdp)
    /\ WF_vars(SpawnUdpLoop)
    /\ WF_vars(TcpAcceptAnySpeed)
    /\ \A i \in 1..MaxUnits : WF_vars(RunUnit(i))

\* ------------------------------------------------------------------------
\* protocols/otls_ws.rs: one session, with the bytes of its stream
\* ------------------------------------------------------------------------

\* Most payloads a client writes into one session.
MaxWrites == 1

\* What handle_tcp_stream hands to the application layer out of the bytes
\* that arrived on the stream: it never reads the stream, so nothing.
OtlsWs_delivered(wire) == <<>>

SessInit ==
    /\ sess_pc = "listening"
    /\ sess_written = <<>>
    /\ sess_wire = <<>>
    /\ sess_delivered = <<>>
    /\ sess_res = NoResult

SessFrame == UNCHANGED <<obfVars, ksVars, log, hVars, dVars, aqVars>>

\* A client connects; the accepted stream goes to handle_tcp_stream.
SessAccept ==
    /\ sess_pc = "listening"
    /\ sess_pc' = "accepted"
    /\ UNCHANGED <<sess_written, sess_wire, sess_delivered, sess_res>>
    /\ SessFrame

\* The client writes a payload: it goes through obfuscate_data on the way
\* out, and the result arrives on the stream.
SessClientWrite ==
    /\ sess_pc \in {"accepted", "returned"}
    /\ Len(sess_written) < MaxWrites
    /\ \E data \in ShortBufs \ {<<>>}, noise_len \in 0..(NoiseRange - 1),
          seed \in RngSeeds, mimic \in BOOLEAN :
          /\ sess_written' = Append(sess_written, data)
          /\ sess_wire' = Append(sess_wire, obfuscate_data(data, noise_len, seed, mimic))
    /\ UNCHANGED <<sess_pc, sess_delivered, sess_res>>
    /\ SessFrame

\* handle_tcp_stream runs: peer_addr()?, two log lines, Ok(()).  The stream is
\* dropped at the return.
SessHandlerReturns ==
    /\ sess_pc = "accepted"
    /\ \E stream \in AcceptedStreams :
          sess_res' = OtlsWs_handle_tcp_stream(stream)
    /\ sess_delivered' = sess_delivered \o OtlsWs_delivered(sess_wire)
    /\ sess_pc' = "returned"
    /\ UNCHANGED <<sess_written, sess_wire>>
    /\ SessFrame

\* The client closes; the next session starts from scratch.
SessClose ==
    /\ sess_pc = "returned"
    /\ sess_pc' = "listening"
    /\ sess_written' = <<>>
    /\ sess_wire' = <<>>
    /\ sess_delivered' = <<>>
    /\ sess_res' = NoResult
    /\ SessFrame

SessNext ==
    \/ SessAccept
    \/ SessClientWrite
    \/ SessHandlerReturns
    \/ SessClose

\* ------------------------------------------------------------------------
\* protocols/aoquic.rs: AoQuicStream
\* ------------------------------------------------------------------------

\* Most calls of each poll method over a run.
MaxPolls == 2
\* Most frames the peer sends over a run.
MaxFrames == 1

\* Poll<io::Result<_>>
Poll_Pending == [ready |-> FALSE, ok |-> FALSE]
Poll_Ready_Ok == [ready |-> TRUE, ok |-> TRUE]

\* self.connection.close(0u32.into(), b"shutdown")
Connection_close(conn) == "closed"

\* The obfuscated frames a peer sends on the connection: non-empty wire
\* buffers.
Frames == ShortBufs \ {<<>>}

\* A complete frame has arrived on the connection and waits to be read.
FrameAvailable == aq_arrived # <<>> /\ aq_inflight = <<>>

\* What poll_read does with (the bytes that arrived, the caller's ReadBuf):
\* it returns Poll::Pending, puts nothing into buf, takes nothing from the
\* connection, and does not use cx, so that no waker is kept.
AoQuicStream_poll_read(arrived, buf) ==
    [res |-> Poll_Pending, buf |-> buf, arrived |-> arrived, waker_kept |-> FALSE]

\* What poll_write does with the caller's bytes: Poll::Pending, nothing is
\* written, cx is not used.
AoQuicStream_poll_write(buf) ==
    [res |-> Poll_Pending, written |-> 0, waker_kept |-> FALSE]

\* The operations that wait after a poll that returned `res`.
StillPending(pending, op, res) ==
    IF res.ready THEN pending \ {op} ELSE pending \cup {op}

\* A stream as AoQuicStream::connect returns it: the connection is open,
\* nothing has arrived on it.
AqInit ==
    /\ aq_conn = "open"
    /\ aq_close_calls = 0
    /\ aq_polls = [read |-> 0, write |-> 0, flush |-> 0, shutdown |-> 0]
    /\ aq_last = [op |-> "connect", res |-> Poll_Ready_Ok]
    /\ aq_inflight = <<>>
    /\ aq_arrived = <<>>
    /\ aq_buf = <<>>
    /\ aq_pending = {}
    /\ aq_wakers = {}
    /\ aq_frames = 0

AqFrame == UNCHANGED <<obfVars, ksVars, log, hVars, dVars, sVars>>

\* poll_read: Poll::Pending, nothing read, no waker kept.
poll_read ==
    /\ aq_polls.read < MaxPolls
    /\ LET r == AoQuicStream_poll_read(aq_arrived, aq_buf)
       IN  /\ aq_last' = [op |-> "read", res |-> r.res]
           /\ aq_buf' = r.buf
           /\ aq_arrived' = r.arrived
           /\ aq_pending' = StillPending(aq_pending, "read", r.res)
           /\ aq_wakers' = IF r.waker_kept THEN aq_wakers \cup {"read"} ELSE aq_wakers
    /\ aq_polls' = [aq_polls EXCEPT !.read = @ + 1]
    /\ UNCHANGED <<aq_conn, aq_close_calls, aq_inflight, aq_frames>>
    /\ AqFrame

\* poll_write: Poll::Pending, nothing written.
poll_write ==
    /\ aq_polls.write < MaxPolls
    /\ LET w == AoQuicStream_poll_write(<<0>>)
       IN  /\ aq_last' = [op |-> "write", res |-> w.res]
           /\ aq_pending' = StillPending(aq_pending, "write", w.res)
           /\ aq_wakers' = IF w.waker_kept THEN aq_wakers \cup {"write"} ELSE aq_wakers
    /\ aq_polls' = [aq_polls EXCEPT !.write = @ + 1]
    /\ UNCHANGED <<aq_conn, aq_close_calls, aq_inflight, aq_arrived, aq_buf, aq_frames>>
    /\ AqFrame

\* poll_flush: Poll::Ready(Ok(())).
poll_flush ==
    /\ aq_polls.flush < MaxPolls
    /\ aq_polls' = [aq_polls EXCEPT !.flush = @ + 1]
    /\ aq_last' = [op |-> "flush", res |-> Poll_Ready_Ok]
    /\ UNCHANGED <<aq_conn, aq_close_calls, aq_inflight, aq_arrived, aq_buf, aq_pending,
                   aq_wakers, aq_frames>>
    /\ AqFrame

\* poll_shutdown: connection.close(...) is called, whatever the connection's
\* state, then Poll::Ready(Ok(())).  The pending read and write are left as
\* they are.
poll_shutdown ==
    /\ aq_polls.shutdown < MaxPolls
    /\ aq_polls' = [aq_polls EXCEPT !.shutdown = @ + 1]
    /\ aq_conn' = Connection_close(aq_conn)
    /\ aq_close_calls' = aq_close_calls + 1
    /\ aq_last' = [op |-> "shutdown", res |-> Poll_Ready_Ok]
    /\ UNCHANGED <<aq_inflight, aq_arrived, aq_buf, aq_pending, aq_wakers, aq_frames>>
    /\ AqFrame

\* The peer sends one obfuscated frame on the open connection.
PeerSendsFrame ==
    /\ aq_conn = "open"
    /\ aq_frames < MaxFrames
    /\ aq_inflight = <<>>
    /\ aq_arrived = <<>>
    /\ \E frame \in Frames : aq_inflight' = frame
    /\ aq_frames' = aq_frames + 1
    /\ UNCHANGED <<aq_conn, aq_close_calls, aq_polls, aq_last, aq_arrived, aq_buf,
                   aq_pending, aq_wakers>>
    /\ AqFrame

\* The next byte of the frame arrives on the connection.  The wakers the
\* stream kept would be woken here: it keeps none.
DataArrives ==
    /\ aq_conn = "open"
    /\ aq_inflight # <<>>
    /\ aq_arrived' = Append(aq_arrived, Head(aq_inflight))
    /\ aq_inflight' = Tail(aq_inflight)
    /\ UNCHANGED <<aq_conn, aq_close_calls, aq_polls, aq_last, aq_buf, aq_pending,
                   aq_wakers, aq_frames>>
    /\ AqFrame

AqNext ==
    \/ poll_read
    \/ poll_write
    \/ poll_flush
    \/ poll_shutdown
    \/ PeerSendsFrame
    \/ DataArrives

\* The caller keeps polling, the peer's bytes keep arriving.
AqFairness ==
    /\ WF_vars(poll_read)
    /\ WF_vars(poll_write)
    /\ WF_vars(poll_flush)
    /\ WF_vars(poll_shutdown)
    /\ WF_vars(PeerSendsFrame)
    /\ WF_vars(DataArrives)

\* ------------------------------------------------------------------------
\* Specifications
\* ------------------------------------------------------------------------

HInit == calls = <<>> /\ sock_sent = <<>>

\* The kill switch is driven: its manager is constructed either way.
Init == ObfInit /\ KsInit /\ HInit /\ DInit /\ SessInit /\ AqInit

\* Another component is driven: the kill switch stays as new(false) left it.
InitKsIdle == ObfInit /\ new(FALSE) /\ HInit /\ DInit /\ SessInit /\ AqInit

SpecObf == InitKsIdle /\ [][ObfNext]_vars

SpecObfMutation == InitKsIdle /\ [][ObfMutationNext]_vars

SpecKS == Init /\ [][KsNext]_vars

SpecKSFlow == Init /\ [][KsFlowNext]_vars

SpecKSWriters == Init /\ [][KsWritersNext]_vars

SpecHandlers == InitKsIdle /\ [][HandlersNext]_vars

SpecDispatch == InitKsIdle /\ [][DispatchNext]_vars

SpecDispatchFair == InitKsIdle /\ [][DispatchTcpNext]_vars /\ DispatchFairness

SpecSession == InitKsIdle /\ [][SessNext]_vars

SpecAoQuicStream == InitKsIdle /\ [][AqNext]_vars

SpecAoQuicStreamFair == InitKsIdle /\ [][AqNext]_vars /\ AqFairness

\* ------------------------------------------------------------------------
\* Properties
\* ------------------------------------------------------------------------

\* C1 (as claimed): deobfuscate_data applied to what obfuscate_data returned
\* for payload P gives back exactly P, whatever the noise length and the
\* mimicry choice.  The code's deobfuscate_data returns its input unchanged,
\* so noise and decoy header stay in the result.
C1_RoundTrip ==
    obf_pc = "roundtrip" => deobf_res = Ok(obf_data)

\* C2 (as claimed): a buffer that cannot be a well-formed obfuscated buffer
\* makes deobfuscate_data return an error and no payload.  The buffers taken
\* here are malformed under any framing with a one-byte marker and a
\* noise-length prefix: those with fewer than two bytes.
C2_MalformedRejected ==
    (obf_pc = "decoded" /\ Len(deobf_in) < 2) => ~deobf_res.ok

\* C3: with enabled=false, whatever set_state and
\* run_health_check_simulation calls were made through whatever handles, the
\* channel holds Disabled, nothing was sent, and every receiver has read only
\* Disabled, has no change pending and never completed a changed().
C3_DisabledStaysDisabled ==
    ~is_enabled =>
        /\ chan_value = "Disabled"
        /\ chan_version = watch_channel("Disabled").version
        /\ sends = 0
        /\ \A r \in 1..Len(rx) :
              /\ ~HasChanged(r)
              /\ rx[r].pc = "ready"
              /\ rx[r].last.val \in {"none", "Disabled"}

\* C3's case: a disabled manager with a clone, after two refused set_state
\* calls with arguments other than Disabled, and a receiver that has read.
C3_Witness ==
    /\ ~is_enabled
    /\ Len(mgr) >= 2
    /\ refused >= 2
    /\ \E r \in 1..Len(rx) : rx[r].last.val = "Disabled"

\* The reads receiver r made after a completed changed(), and the sends.
WokeReads(r) ==
    LET evs == SelectSeq(log, LAMBDA e : e.ev = "read" /\ e.r = r /\ e.woke)
    IN  [i \in 1..Len(evs) |-> evs[i].val]
SentValues ==
    LET evs == SelectSeq(log, LAMBDA e : e.ev = "send")
    IN  [i \in 1..Len(evs) |-> evs[i].val]
\* Receiver r was handed out before anything was sent.
SubscribedFirst(r) ==
    \E i \in 1..Len(log) :
        /\ log[i].ev = "sub" /\ log[i].r = r
        /\ \A j \in 1..i : log[j].ev # "send"

\* C4 (as claimed): once the writer has sent Active, Triggered, Active, a
\* receiver handed out before the first send that waits for a change and then
\* reads, again and again, and has caught up, has read exactly Active,
\* Triggered, Active.  The watch channel keeps only the latest value, so a
\* receiver that is slower than the writer reads fewer or other values.
C4_ObservesActiveTriggeredActive ==
    \A r \in 1..Len(rx) :
        ( /\ SentValues = <<"Active", "Triggered", "Active">>
          /\ SubscribedFirst(r)
          /\ rx[r].pc = "ready"
          /\ ~HasChanged(r) )
        => WokeReads(r) = <<"Active", "Triggered", "Active">>

\* C5 (as claimed): a value that differs from the value set before it is read
\* by every receiver handed out before it was sent: no later send happens
\* without the receiver having read in between.
C5_NoValueSkipped ==
    \A i, k \in 1..Len(log) :
        ( /\ i < k
          /\ log[i].ev = "send" /\ log[k].ev = "send"
          /\ \A j \in (i + 1)..(k - 1) : log[j].ev # "send"
          /\ LET before == SelectSeq(SubSeq(log, 1, i - 1), LAMBDA e : e.ev = "send")
             IN  log[i].val # (IF before = <<>> THEN "Disabled" ELSE before[Len(before)].val) )
        => \A r \in 1..Len(rx) :
              (\E s \in 1..(i - 1) : log[s].ev = "sub" /\ log[s].r = r)
              => \E j \in (i + 1)..(k - 1) : log[j].ev = "read" /\ log[j].r = r

\* C6 (as claimed): once the channel holds Disabled it holds Disabled ever
\* after, for an enabled manager too.
C6_DisabledHasNoExit ==
    [][chan_value = "Disabled" => chan_value' = "Disabled"]_vars

\* C6 (amended): for a manager constructed with enabled=false, Disabled has no
\* outgoing transition: the flag stays false and the channel stays at Disabled
\* across every step.  (An enabled manager starts at Disabled and leaves it
\* with its first set_state to another value.)
C6_DisabledPermanentWhenNotEnabled ==
    [][(~is_enabled /\ chan_value = "Disabled")
        => (~is_enabled' /\ chan_value' = "Disabled")]_vars

\* C6's case: a disabled manager on which every allowed set_state call was
\* made, at least one of them refused.
C6_Witness ==
    /\ ~is_enabled
    /\ attempts = MaxCalls
    /\ refused >= 1
    /\ chan_value = "Disabled"

\* C7: every read of a handle from subscribe_state, the first one included,
\* yields the argument of the latest send (Disabled before any send); and when
\* a send happened after the handle was handed out or after its last completed
\* changed(), the handle has a change pending, so its next changed() completes.
C7_SubscribeCurrentThenChanges ==
    \A r \in 1..Len(rx) :
        /\ rx[r].last # NoRead => rx[r].last.val = rx[r].last.cur
        /\ sends > rx[r].mark => HasChanged(r)

\* C7's case: a handle handed out after a send, which has read Triggered
\* without waiting, and for which a later send is pending.
C7_Witness ==
    \E r \in 1..Len(rx) :
        /\ rx[r].mark > 0
        /\ rx[r].version = watch_channel("Disabled").version
        /\ rx[r].last.val = "Triggered"
        /\ sends > rx[r].mark
        /\ HasChanged(r)

\* C8 (as claimed): at no time are two tasks inside set_state on the same
\* channel.  Every clone holds a sender and set_state takes &self, so two
\* handles can both be between the load of the flag and the send.
C8_SingleWriter ==
    Cardinality({m \in 1..Len(mgr) : mgr[m].pc = "loaded"}) <= 1

C11_OtlsWsUdpUnconditional ==
    /\ sock_sent = <<>>
    /\ \A i \in 1..Len(calls) :
          calls[i].transport = "datagram" /\ calls[i].handler = "OTLS/WS"
          => calls[i].res = io_Error_new("Other")

\* C11's case: the handler was given the empty buffer, as
\* test_otlsws_rejects_udp_packets gives it, and a non-empty buffer from
\* another peer.
C11_Witness ==
    \E i, j \in 1..Len(calls) :
        /\ calls[i].handler = "OTLS/WS" /\ calls[i].transport = "datagram"
        /\ calls[j].handler = "OTLS/WS" /\ calls[j].transport = "datagram"
        /\ calls[i].buf = <<>>
        /\ calls[j].buf # <<>>
        /\ calls[i].peer # calls[j].peer

\* C12: a unit that ends with an error changes neither loop and no other
\* unit in doing so, and while the runtime is up a failed unit leaves both
\* loops, once spawned, running: they go on accepting.
C12_UnitFailureIsolated ==
    /\ []((main_pc # "exited" /\ \E i \in 1..Len(units) : Failed(units[i]))
            => /\ tcp_loop = "running"
               /\ udp_loop \in {"unspawned", "running"})
    /\ [][\A i \in 1..Len(units) :
            (units[i].pc = "spawned" /\ Len(units') = Len(units) /\ Failed(units'[i]))
            => /\ tcp_loop' = tcp_loop
               /\ udp_loop' = udp_loop
               /\ \A j \in 1..Len(units) : j # i => units'[j] = units[j]]_vars

\* C12's case: a unit failed, a unit was spawned after that failure, and a
\* later unit ran to its own successful end.
C12_Witness ==
    /\ after_failure
    /\ \E i, j \in 1..Len(units) :
          /\ i < j
          /\ Failed(units[i])
          /\ units[j].pc = "done" /\ units[j].res.ok

\* C13: whatever number of accept() or recv_from() errors occurred, the loop
\* they occurred in is still running (until main itself returns).
C13_AcceptErrorNotFatal ==
    /\ (tcp_accept_errs > 0 /\ main_pc # "exited") => tcp_loop = "running"
    /\ udp_recv_errs > 0 => udp_loop = "running"

\* C13's case: both loops had an error, a unit was spawned by a loop after
\* its error, and a connection and a datagram were both handled.
C13_Witness ==
    /\ after_accept_err
    /\ tcp_accept_errs > 0
    /\ udp_recv_errs > 0
    /\ \E i, j \in 1..Len(units) :
          /\ units[i].transport = "stream" /\ units[i].pc = "done"
          /\ units[j].transport = "datagram" /\ units[j].pc = "done"

\* C14: every session that is not slow runs to its end (or the runtime goes
\* down), whatever the other sessions do; and while the accept loop runs,
\* connections go on being accepted, slow or failed sessions notwithstanding.
C14_SessionsCompleteIndependently ==
    /\ \A k \in 1..MaxUnits :
          []((Len(units) >= k /\ ~units[k].slow)
              => <>(main_pc = "exited" \/ (Len(units) >= k /\ units[k].pc = "done")))
    /\ [](tcp_loop = "running" => <>(main_pc = "exited" \/ Len(units) = MaxUnits))

\* C14's case: a slow session is still unfinished, another session failed
\* its handshake, and a session accepted after the slow one has completed.
C14_Witness ==
    \E i, j, k \in 1..Len(units) :
        /\ i < j
        /\ units[i].slow /\ units[i].pc = "spawned"
        /\ units[j].pc = "done" /\ units[j].res.ok
        /\ Failed(units[k])

\* C15 (as claimed): in an execution where a bind failed, no handler was ever
\* run for a connection or a datagram.  The accept loop is spawned before
\* the UDP bind, so it can serve connections before that bind fails.
C15_NoDispatchWhenBindFails ==
    main_err # "none" => \A i \in 1..Len(units) : units[i].pc # "done"

\* C19 (as claimed): the datagrams of one peer all go to one session.  The
\* receive loop keeps no table: it spawns a unit per datagram.
C19_OneSessionPerPeer ==
    \A i, j \in 1..Len(units) :
        ( /\ units[i].transport = "datagram" /\ units[j].transport = "datagram"
          /\ units[i].from.peer = units[j].from.peer )
        => i = j

\* C20 (as claimed): of two datagrams of one peer, the later one is never
\* handled before the earlier one.
C20_PerSessionFifo ==
    \A i, j \in 1..Len(units) :
        ( /\ i < j
          /\ units[i].transport = "datagram" /\ units[j].transport = "datagram"
          /\ units[i].from.peer = units[j].from.peer
          /\ units[j].pc = "done" )
        => units[i].pc = "done"

\* C16 (as claimed): however often a session is closed, the close of the
\* underlying transport is performed at most once, and every close call
\* returns success.  poll_shutdown returns success each time but calls
\* connection.close each time too.
C16_CloseIdempotent ==
    /\ aq_last.op = "shutdown" => aq_last.res = Poll_Ready_Ok
    /\ aq_close_calls <= 1

\* C17 (as claimed): once the handler has returned, the application layer at
\* the server has received exactly the payloads the client wrote before.
\* handle_tcp_stream never reads the stream.
C17_EndToEndDelivery ==
    (sess_pc = "returned" /\ sess_res.ok) => sess_delivered = sess_written

\* C18 (as claimed): what obfuscate_data returns is at least as long as the
\* payload and is never the payload itself.  With noise length 0 and no
\* mimicry it is the payload itself.
C18_OutputLongerAndDifferent ==
    obf_pc \in {"sleeping", "returned", "roundtrip"}
    => (Len(obf_out) >= Len(obf_data) /\ obf_out # obf_data)

\* C21 (as claimed): a read that returned Poll::Pending is completed later
\* (bytes, end-of-stream, or completion after data arrived or the session was
\* closed), and so is a pending write.  poll_read and poll_write return
\* Poll::Pending on every call and keep no waker.
C21_PendingIoCompletes ==
    /\ [](("read" \in aq_pending) => <>("read" \notin aq_pending))
    /\ [](("write" \in aq_pending) => <>("write" \notin aq_pending))

\* C22 (as claimed): while no complete frame has arrived a read reports
\* "not ready", leaves the caller's buffer and the arrived bytes alone; a read
\* made when a complete frame is available delivers that frame.  poll_read
\* returns Poll::Pending and delivers nothing, whatever has arrived.
C22_FrameBuffering ==
    [][ poll_read =>
          IF FrameAvailable
          THEN aq_last'.res = Poll_Ready_Ok /\ aq_buf' = aq_buf \o aq_arrived
          ELSE aq_last'.res = Poll_Pending /\ aq_buf' = aq_buf /\ aq_arrived' = aq_arrived ]_vars

\* C23 (as claimed): a buffer obfuscated in one mutation epoch and
\* deobfuscated after the engine has moved to a later one yields the original
\* payload, and a buffer that carries no epoch id (the empty buffer can carry
\* none) yields an error.  obfuscate_data writes no epoch id and
\* deobfuscate_data returns any input unchanged.
C23_EpochTagged ==
    /\ (obf_pc = "roundtrip" /\ obf_mutations > obf_made_in) => deobf_res = Ok(obf_data)
    /\ (obf_pc = "decoded" /\ deobf_in = <<>>) => ~deobf_res.ok

\* C24 (as claimed): the number of noise bytes is recorded in the output, so
\* the output alone determines it: no call of obfuscate_data with another
\* noise length returns the same bytes.  The output holds no such prefix.
C24_NoiseLengthPrefixed ==
    obf_pc \in {"sleeping", "returned"}
    => \A data \in Payloads, noise_len \in 0..(NoiseRange - 1), seed \in RngSeeds,
          mimic \in BOOLEAN :
          obfuscate_data(data, noise_len, seed, mimic) = obf_out => noise_len = obf_noise_len

\* C25 (as claimed): the output marks whether the decoy header was prepended,
\* so bytes returned with the header for one payload are never returned
\* without it for another.  The output holds no marker: a payload that starts
\* with the header's text gives the same bytes.
C25_MimicryMarked ==
    (obf_pc \in {"sleeping", "returned"} /\ obf_mimic)
    => \A data \in Payloads, noise_len \in 0..(NoiseRange - 1), seed \in RngSeeds :
          obfuscate_data(data, noise_len, seed, FALSE) # obf_out

\* C26: for an enabled manager every set_state call made so far was sent
\* (whatever its argument and whatever the channel held), the channel holds
\* the argument of the latest call (Disabled when none was made), and each
\* value a receiver read with borrow() was the argument of the latest call
\* made before the read.
C26_SetStateOverwrites ==
    is_enabled =>
        /\ sends = attempts
        /\ chan_value = last_set
        /\ (attempts = 0 => chan_value = "Disabled")
        /\ \A r \in 1..Len(rx) :
              rx[r].last # NoRead => rx[r].last.val = rx[r].last.cur

\* C26 witness: an enabled manager was set at least twice, last to Disabled,
\* and a receiver handed out after those calls read Disabled.
C26_Witness ==
    /\ is_enabled
    /\ attempts >= 2
    /\ chan_value = "Disabled"
    /\ Len(rx) >= 1
    /\ rx[1].mark = sends
    /\ rx[1].last = [val |-> "Disabled", cur |-> "Disabled"]

\* C27: what obfuscate_data returns for payload P is the decoy header or
\* nothing, then P unmodified and in one piece, then n noise bytes with
\* 0 <= n <= 15 (the noise was added first, next to P; the header was put in
\* front of both), so its length is len(P) + n, plus the header's length when
\* the header is there.
C27_OutputShape ==
    obf_pc \in {"sleeping", "returned", "roundtrip"}
    => LET header == IF obf_mimic THEN fake_header ELSE <<>>
           n == obf_noise_len
       IN  /\ n \in 0..15
           /\ Len(obf_out) = Len(header) + Len(obf_data) + n
           /\ SubSeq(obf_out, 1, Len(header)) = header
           /\ SubSeq(obf_out, Len(header) + 1, Len(header) + Len(obf_data)) = obf_data
           /\ Len(obf_out) \in {Len(obf_data) + n, Len(obf_data) + n + Len(fake_header)}

\* C27 witness: obfuscate_data returned for a non-empty payload with noise
\* bytes added and the header prepended.
C27_Witness ==
    /\ obf_pc = "returned"
    /\ obf_data # <<>>
    /\ obf_noise_len > 0
    /\ obf_mimic
    /\ Len(obf_out) = Len(fake_header) + Len(obf_data) + obf_noise_len

====
